---------------------------- MODULE Spec2Model ----------------------------
(***************************************************************************)
(* A model of bot.py: the passage catalog TEXTS, the on-disk cache under   *)
(* texts/, the resolver get_passages with its two adapters, the query      *)
(* handlers quote, random_passage and search, and the chunker              *)
(* split_into_chunks.                                                      *)
(*                                                                         *)
(* Strings are sequences of one-character strings, so that strip, rfind,   *)
(* replace, split and lower are computed, not assumed.  Python positions   *)
(* are 0-based; Slice(s, a, b) is s[a:b].                                  *)
(*                                                                         *)
(* Spec      the handlers, two in flight at most, interleaved at the GETs  *)
(* SpecSeq   the handlers with the queries arriving one after the other    *)
(* SpecChunk split_into_chunks on every short text, one iteration a step   *)
(***************************************************************************)
EXTENDS Integers, Sequences, FiniteSets, TLC

VARIABLES
    \* split_into_chunks: its arguments, its locals and its position
    text, max_len, start, chunks, cpc,
    \* the catalog: title -> [type, passages] (line 43)
    TEXTS,
    \* the files of texts/: file name -> [title, passages] (lines 68-81)
    disk,
    \* each query handler's position and locals
    proc,
    \* the outcome of the handler that has just finished, until its reply is
    \* delivered (NoOutcome when there is none)
    last,
    \* per title, the network GETs issued for it since the process started
    fetches,
    \* per title, the fetches that have raised since the process started
    raises,
    \* the queries started so far
    queries

chunkVars == <<text, max_len, start, chunks, cpc>>

botVars == <<TEXTS, disk, proc, last, fetches, raises, queries>>

vars == <<text, max_len, start, chunks, cpc,
          TEXTS, disk, proc, last, fetches, raises, queries>>

----------------------------------------------------------------------------
(* Bounds of the model *)

\* longest text handed to split_into_chunks
MaxTextLen == 5
\* largest max_len handed to split_into_chunks
MaxChunkLen == 3
\* queries started in one run of the model
MaxQueries == 2
\* largest passage number asked of quote
MaxNumber == 4

----------------------------------------------------------------------------
(* Strings *)

\* the characters str.strip() removes (Python's whitespace)
Whitespace == {" ", "\t", "\n", "\r"}

IsSpace(c) == c \in Whitespace

\* s[a:b] for 0 <= a, with b clipped to len(s)
Slice(s, a, b) ==
    LET hi == IF b > Len(s) THEN Len(s) ELSE b
    IN  IF a >= hi THEN <<>> ELSE SubSeq(s, a + 1, hi)

\* s.lstrip()
RECURSIVE LStrip(_)
LStrip(s) ==
    IF s # <<>> /\ IsSpace(Head(s)) THEN LStrip(Tail(s)) ELSE s

\* s.rstrip()
RECURSIVE RStrip(_)
RStrip(s) ==
    IF s # <<>> /\ IsSpace(s[Len(s)]) THEN RStrip(SubSeq(s, 1, Len(s) - 1)) ELSE s

\* s.strip()
Strip(s) == RStrip(LStrip(s))

\* s.rfind(c, lo, hi): the highest 0-based position in [lo, hi) holding c, or -1
RFind(s, c, lo, hi) ==
    LET top == IF hi > Len(s) THEN Len(s) ELSE hi
        at  == {i \in lo .. (top - 1) : s[i + 1] = c}
    IN  IF at = {} THEN -1 ELSE CHOOSE i \in at : \A j \in at : j <= i

\* the concatenation of a sequence of strings
RECURSIVE Concat(_)
Concat(ss) == IF ss = <<>> THEN <<>> ELSE Head(ss) \o Concat(Tail(ss))

\* s with its whitespace deleted
RECURSIVE NoSpace(_)
NoSpace(s) ==
    IF s = <<>> THEN <<>>
    ELSE IF IsSpace(Head(s)) THEN NoSpace(Tail(s))
    ELSE <<Head(s)>> \o NoSpace(Tail(s))

\* every string over alphabet A of length at most n
StringsUpTo(A, n) == UNION {[1 .. k -> A] : k \in 0 .. n}

----------------------------------------------------------------------------
(* The static configuration: lines 16-33 *)

\* the titles, as strings
T_BhagavadGita == <<"B", "h", "a", "g", "a", "v", "a", "d", " ", "G", "i", "t", "a">>
T_Upanishads == <<"U", "p", "a", "n", "i", "s", "h", "a", "d", "s">>
T_Dhammapada == <<"D", "h", "a", "m", "m", "a", "p", "a", "d", "a">>
T_WEB == <<"W", "o", "r", "l", "d", " ", "E", "n", "g", "l", "i", "s", "h", " ", "B", "i", "b", "l", "e">>
T_KJV == <<"K", "J", "V">>
T_Tanakh == <<"T", "a", "n", "a", "k", "h", " ", "(", "J", "P", "S", " ", "1", "9", "1", "7", ")">>
T_Quran == <<"Q", "u", "r", "a", "n", " ", "(", "P", "i", "c", "k", "t", "h", "a", "l", "l", ")">>
T_Mormon == <<"B", "o", "o", "k", " ", "o", "f", " ", "M", "o", "r", "m", "o", "n">>

\* MAX_MESSAGE_LENGTH, split_into_chunks' default max_len
MAX_MESSAGE_LENGTH == 2000

\* the keys of GUTENBERG_TEXTS in the dict's (insertion) order; each title's
\* URL is its own, so the title names the URL fetched
GUTENBERG_TEXTS == <<T_BhagavadGita, T_Upanishads, T_Dhammapada>>

\* API_TEXTS: its keys in the dict's order, with each key's provider
API_TEXTS ==
    << <<T_WEB, "bible-api">>, <<T_KJV, "bible-api">>, <<T_Tanakh, "sefaria">>,
       <<T_Quran, "alquran">>, <<T_Mormon, "nephi">> >>

Range(f) == {f[i] : i \in DOMAIN f}

GutenbergTitles == Range(GUTENBERG_TEXTS)

ApiTitles == {e[1] : e \in Range(API_TEXTS)}

\* list(GUTENBERG_TEXTS.keys()) + list(API_TEXTS.keys())
AllTitles == GUTENBERG_TEXTS \o [i \in DOMAIN API_TEXTS |-> API_TEXTS[i][1]]

KnownTitles == Range(AllTitles)

\* TEXTS_DIR / f"{title.replace(' ','_')}.json"
FileName(title) ==
    [i \in 1 .. Len(title) |-> IF title[i] = " " THEN "_" ELSE title[i]]
        \o <<".", "j", "s", "o", "n">>

----------------------------------------------------------------------------
(* The adapters' pure parts *)

\* raw.split("\n\n"): cur is the piece being read
RECURSIVE SplitBlank(_, _)
SplitBlank(s, cur) ==
    IF s = <<>> THEN <<cur>>
    ELSE IF Len(s) >= 2 /\ s[1] = "\n" /\ s[2] = "\n"
         THEN <<cur>> \o SplitBlank(SubSeq(s, 3, Len(s)), <<>>)
         ELSE SplitBlank(Tail(s), Append(cur, Head(s)))

\* [f(x) for x in xs]
RECURSIVE StripAll(_)
StripAll(xs) ==
    IF xs = <<>> THEN <<>> ELSE <<Strip(Head(xs))>> \o StripAll(Tail(xs))

NonEmpty(s) == s # <<>>

\* line 78: [line.strip() for line in raw.split("\n\n") if line.strip()]
Segment(raw) == SelectSeq(StripAll(SplitBlank(raw, <<>>)), NonEmpty)

Digit(d) == <<"0", "1", "2", "3", "4", "5", "6", "7", "8", "9">>[d + 1]

\* str(n) for n >= 0
RECURSIVE Dec(_)
Dec(n) == IF n < 10 THEN <<Digit(n)>> ELSE Dec(n \div 10) \o <<Digit(n % 10)>>

\* line 96: f"{v['book_name']} {v['chapter']}:{v['verse']} {v['text']}"
VerseLine(v) ==
    v.book_name \o <<" ">> \o Dec(v.chapter) \o <<":">> \o Dec(v.verse)
        \o <<" ">> \o v.text

RECURSIVE VerseLines(_)
VerseLines(vs) ==
    IF vs = <<>> THEN <<>> ELSE <<VerseLine(Head(vs))>> \o VerseLines(Tail(vs))

\* [x['text'] for x in xs]
RECURSIVE TextsOf(_)
TextsOf(xs) ==
    IF xs = <<>> THEN <<>> ELSE <<Head(xs).text>> \o TextsOf(Tail(xs))

Has(data, key) == key \in DOMAIN data

\* fetch_api_text after the response's JSON is in data: the passages it
\* returns, or the exception it raises
ApiPassages(title, data) ==
    IF title \in {T_WEB, T_KJV}
    THEN [raised |-> "",
          passages |-> IF Has(data, "verses") THEN VerseLines(data.verses) ELSE <<>>]
    ELSE IF title = T_Tanakh
    THEN [raised |-> "",
          passages |-> IF Has(data, "text") THEN data.text ELSE <<>>]
    ELSE IF title = T_Quran
    THEN IF Has(data, "data") /\ Has(data.data, "ayahs")
         THEN [raised |-> "", passages |-> TextsOf(data.data.ayahs)]
         ELSE [raised |-> "KeyError", passages |-> <<>>]
    ELSE IF title = T_Mormon
    THEN IF Has(data, "verses")
         THEN [raised |-> "", passages |-> TextsOf(data.verses)]
         ELSE [raised |-> "KeyError", passages |-> <<>>]
    ELSE [raised |-> "", passages |-> <<>>]

----------------------------------------------------------------------------
(* search's pure parts *)

UpperCase ==
    <<"A", "B", "C", "D", "E", "F", "G", "H", "I", "J", "K", "L", "M",
      "N", "O", "P", "Q", "R", "S", "T", "U", "V", "W", "X", "Y", "Z">>

LowerCase ==
    <<"a", "b", "c", "d", "e", "f", "g", "h", "i", "j", "k", "l", "m",
      "n", "o", "p", "q", "r", "s", "t", "u", "v", "w", "x", "y", "z">>

LowerChar(c) ==
    IF \E i \in DOMAIN UpperCase : UpperCase[i] = c
    THEN LowerCase[CHOOSE i \in DOMAIN UpperCase : UpperCase[i] = c]
    ELSE c

\* s.lower()
Lower(s) == [i \in 1 .. Len(s) |-> LowerChar(s[i])]

\* q in p
Contains(q, p) ==
    \E i \in 0 .. (Len(p) - Len(q)) : SubSeq(p, i + 1, i + Len(q)) = q

\* line 210: query.lower() in p.lower()
Matches(query, p) == Contains(Lower(query), Lower(p))

\* the length a snippet is cut to (line 211)
SNIPPET_LEN == 300

\* the number of results search stops at (lines 213, 215)
SEARCH_LIMIT == 5

\* s.rsplit(" ", 1)[0]
RSplitHead(s) ==
    LET at == RFind(s, " ", 0, Len(s))
    IN  IF at = -1 THEN s ELSE Slice(s, 0, at)

\* line 211: p[:300].rsplit(" ",1)[0] + ("..." if len(p)>300 else "")
Snippet(p) ==
    RSplitHead(Slice(p, 0, SNIPPET_LEN))
        \o (IF Len(p) > SNIPPET_LEN THEN <<".", ".", ".">> ELSE <<>>)

\* lines 209-214: the scan of one title's passages from passage i on
RECURSIVE ScanFrom(_, _, _, _, _)
ScanFrom(title, passages, query, i, results) ==
    IF i > Len(passages) THEN results
    ELSE IF Matches(query, passages[i])
         THEN LET r == Append(results, [title |-> title, number |-> i,
                                       snippet |-> Snippet(passages[i])])
              IN  IF Len(r) >= SEARCH_LIMIT THEN r
                  ELSE ScanFrom(title, passages, query, i + 1, r)
         ELSE ScanFrom(title, passages, query, i + 1, results)

----------------------------------------------------------------------------
(* The network: what a GET may answer *)

\* bodies a flat-file URL may answer with: three paragraphs, or blank lines only
Body_Three == <<"a", "\n", "\n", "b", " ", "A", "\n", "\n", "\n", "a", "\n">>
Body_Blank == <<" ", "\n", "\n">>

\* session.get(url) / resp.text(): a transport error, or a response of any
\* status with a body (the code never looks at the status)
GutenbergResponses ==
    {[raised |-> "ClientError", status |-> 0, body |-> <<>>]}
    \cup {[raised |-> "", status |-> 200, body |-> Body_Three],
          [raised |-> "", status |-> 200, body |-> Body_Blank],
          [raised |-> "", status |-> 404, body |-> Body_Blank]}

Verse(n, t) == [book_name |-> <<"G">>, chapter |-> 1, verse |-> n, text |-> t]

\* the JSON a provider answers with when it serves the text
ApiGoodData(title) ==
    IF title \in {T_WEB, T_KJV}
    THEN [verses |-> <<Verse(1, <<"a">>), Verse(2, <<"b">>)>>]
    ELSE IF title = T_Tanakh THEN [text |-> <<<<"a">>, <<"b">>>>]
    ELSE IF title = T_Quran THEN [data |-> [ayahs |-> <<[text |-> <<"a">>]>>]]
    ELSE [verses |-> <<[text |-> <<"a">>]>>]

\* the JSON of an error answer: none of the expected fields
ApiErrorData == [error |-> <<"e">>]

\* session.get(url) / resp.json(): a transport error, a body that is not JSON
\* (resp.json() raises ContentTypeError), or JSON
ApiResponses(title) ==
    {[raised |-> "ClientError", status |-> 0, data |-> <<>>],
     [raised |-> "ContentTypeError", status |-> 500, data |-> <<>>],
     [raised |-> "", status |-> 200, data |-> ApiGoodData(title)],
     [raised |-> "", status |-> 404, data |-> ApiErrorData]}

----------------------------------------------------------------------------
(* The resolver: get_passages, fetch_gutenberg, fetch_api_text *)

\* TEXTS[key] = {"type": type, "passages": passages}
Put(T, key, type, passages) ==
    [k \in (DOMAIN T) \cup {key} |->
        IF k = key THEN [type |-> type, passages |-> passages] ELSE T[k]]

\* the file write of lines 80-81
WriteFile(D, title, passages) ==
    [f \in (DOMAIN D) \cup {FileName(title)} |->
        IF f = FileName(title) THEN [title |-> title, passages |-> passages]
        ELSE D[f]]

\* a catalog check that never finds the title
InCatalog_Never(T, title_key) == FALSE

\* line 128: title_key in TEXTS
InCatalog(T, title_key) == title_key \in DOMAIN T

\* a lookup key that keeps the title's surrounding whitespace
TitleKey_Raw(title) == title

\* line 127: title_key = title.strip()
TitleKey(title) == Strip(title)

\* a disk that never shows the title's file
FileExists_Never(D, title) == FALSE

\* line 69: local_file.exists()
FileExists(D, title) == FileName(title) \in DOMAIN D

\* get_passages(title) from catalog T and disk D, up to its first await that
\* suspends: it returns passages (await = FALSE) with the catalog as it leaves
\* it, or it has issued the GET for title_key (await = TRUE); via tells what
\* satisfied the request: the catalog ("memory", line 129), the title's file
\* ("disk", lines 70-72), the GET ("network") or nothing ("none", line 140)
GetPassagesSync(T, D, title) ==
    LET title_key == TitleKey(title)
    IN  IF InCatalog(T, title_key)
        THEN [await |-> FALSE, key |-> title_key, via |-> "memory",
              passages |-> T[title_key].passages, texts |-> T]
        ELSE IF title_key \in GutenbergTitles
        THEN IF FileExists(D, title_key)
             THEN LET passages == D[FileName(title_key)].passages
                  IN  [await |-> FALSE, key |-> title_key, via |-> "disk",
                       passages |-> passages,
                       texts |-> Put(T, title_key, "local", passages)]
             ELSE [await |-> TRUE, key |-> title_key, via |-> "network",
                   passages |-> <<>>, texts |-> T]
        ELSE IF title_key \in ApiTitles
        THEN [await |-> TRUE, key |-> title_key, via |-> "network",
              passages |-> <<>>, texts |-> T]
        ELSE [await |-> FALSE, key |-> title_key, via |-> "none",
              passages |-> <<>>, texts |-> T]

\* what the network may answer to the GET for key
Responses(key) ==
    IF key \in GutenbergTitles THEN GutenbergResponses ELSE ApiResponses(key)

\* the rest of the adapter once the GET has answered resp: the exception it
\* raises, or the passages it returns
Fetched(key, resp) ==
    IF resp.raised # "" THEN [raised |-> resp.raised, passages |-> <<>>]
    ELSE IF key \in GutenbergTitles
    THEN [raised |-> "", passages |-> Segment(resp.body)]
    ELSE ApiPassages(key, resp.data)

\* a catalog whose every entry is tagged "local"
Resolved_AllLocal(T, key, passages) == Put(T, key, "local", passages)

\* the catalog after get_passages has the adapter's passages (lines 133, 137)
Resolved(T, key, passages) ==
    Put(T, key, IF key \in GutenbergTitles THEN "local" ELSE "api", passages)

\* a disk on which a title's first record is kept
Saved_KeepFirst(D, key, passages) ==
    IF key \in GutenbergTitles /\ FileName(key) \notin DOMAIN D
    THEN WriteFile(D, key, passages)
    ELSE D

\* the disk after the adapter has returned passages (lines 80-81)
Saved(D, key, passages) ==
    IF key \in GutenbergTitles THEN WriteFile(D, key, passages) ELSE D

----------------------------------------------------------------------------
(* The handlers' results *)

NoOutcome ==
    [cmd |-> "", kind |-> "", title |-> <<>>, given |-> FALSE, number |-> 0,
     query |-> <<>>, passages |-> <<>>, text |-> <<>>, results |-> <<>>,
     exc |-> "", key |-> <<>>, status |-> 0, seen |-> <<>>, via |-> ""]

\* outcome o of a handler whose last step consumed a response of this status
\* for title key (status 0: the step consumed no response)
After(o, key, status) == [o EXCEPT !.key = key, !.status = status]

\* outcome o of a quote or random_passage whose get_passages was satisfied
\* by via
Via(o, via) == [o EXCEPT !.via = via]

\* lines 168-177: quote once get_passages has returned passages
QuoteOutcome(title, number, passages) ==
    LET req == [NoOutcome EXCEPT !.cmd = "quote", !.title = title, !.given = TRUE,
                                 !.number = number, !.passages = passages]
    IN  IF passages = <<>> THEN [req EXCEPT !.kind = "NotFound"]
        ELSE IF number < 1 \/ number > Len(passages)
        THEN [req EXCEPT !.kind = "OutOfRange"]
        ELSE [req EXCEPT !.kind = "Passage", !.text = passages[number]]

\* lines 184-191 and 197-201: random_passage once get_passages has returned
\* passages; random.randrange(0) raises ValueError
RandomOutcomes(title, given, passages) ==
    LET req == [NoOutcome EXCEPT !.cmd = "random", !.title = title,
                                 !.given = given, !.passages = passages]
    IN  IF given /\ passages = <<>> THEN {[req EXCEPT !.kind = "NotFound"]}
        ELSE IF passages = <<>>
        THEN {[req EXCEPT !.kind = "Raised", !.exc = "ValueError"]}
        ELSE {[req EXCEPT !.kind = "Passage", !.number = idx + 1,
                          !.text = passages[idx + 1]] :
                 idx \in 0 .. (Len(passages) - 1)}

\* lines 217-220: search's answer
SearchOutcome(query, results, seen) ==
    [NoOutcome EXCEPT !.cmd = "search", !.query = query, !.results = results,
                      !.seen = seen,
                      !.kind = IF results # <<>> THEN "Matches" ELSE "NoMatches"]

\* a handler that ends with the exception exc
RaisedOutcome(p, exc) ==
    [NoOutcome EXCEPT !.cmd = p.cmd, !.title = p.title, !.given = p.given,
                      !.query = p.query, !.kind = "Raised", !.exc = exc]

\* a scan of every title, flat-file and API
SearchTitles_All == AllTitles

\* line 207: the titles search scans, GUTENBERG_TEXTS.keys()
SearchTitles == GUTENBERG_TEXTS

\* a search loop without the outer break: the limit holds per title only
SearchDone_Never(results) == FALSE

\* lines 215-216: the outer loop's break
SearchDone(results) == Len(results) >= SEARCH_LIMIT

\* lines 207-216: search's loop from the i-th title on, up to the first
\* get_passages that suspends
\* (seen lists, for each title scanned, the passages get_passages returned
\* and what satisfied the request)
RECURSIVE SearchRun(_, _, _, _, _, _)
SearchRun(i, T, D, query, results, seen) ==
    IF i > Len(SearchTitles)
    THEN [await |-> FALSE, idx |-> i, texts |-> T, results |-> results,
          seen |-> seen]
    ELSE LET title == SearchTitles[i]
             got == GetPassagesSync(T, D, title)
         IN  IF got.await
             THEN [await |-> TRUE, idx |-> i, texts |-> T, results |-> results,
                   seen |-> seen]
             ELSE LET found == ScanFrom(title, got.passages, query, 1, results)
                      seen2 == Append(seen, [passages |-> got.passages,
                                             via |-> got.via])
                  IN  IF SearchDone(found)
                      THEN [await |-> FALSE, idx |-> i, texts |-> got.texts,
                            results |-> found, seen |-> seen2]
                      ELSE SearchRun(i + 1, got.texts, D, query, found, seen2)

----------------------------------------------------------------------------
(* The handlers.  A handler runs without interruption from one await that   *)
(* suspends to the next; the awaits that suspend are the GETs and, at the   *)
(* handler's end, the sends of its reply.  Once a handler has its outcome   *)
(* it reads and writes no shared state, so its reply is delivered before    *)
(* any other step is taken: no behaviour of TEXTS and disk is lost.         *)

\* the handler instances that may be in flight at once; they are
\* interchangeable, so a new query takes the lowest free one
Handlers == {1, 2}

\* what users type as a title: known titles, one with surrounding
\* whitespace, and an unknown one
T_Nonexistent == <<"N", "o", "n", "e">>

TitleInputs ==
    {T_Dhammapada, <<" ">> \o T_Dhammapada \o <<" ">>, T_KJV, T_Quran,
     T_Nonexistent}

Numbers == 0 .. MaxNumber

QueryInputs == {<<"a">>, <<"B">>}

\* a handler's locals.  quote's argument number is first read at line 171,
\* after get_passages has returned, so it is drawn there and not carried
\* through the suspension.
Idle ==
    [pc |-> "idle", cmd |-> "", title |-> <<>>, given |-> FALSE,
     query |-> <<>>, idx |-> 0, results |-> <<>>, key |-> <<>>,
     seen |-> <<>>]

\* the handler h suspended on the GET for key
Suspend(h, p, key) ==
    /\ proc' = [proc EXCEPT ![h] = [p EXCEPT !.pc = "fetch", !.key = key]]
    /\ fetches' = [fetches EXCEPT ![key] = @ + 1]
    /\ last' = NoOutcome

\* the handler h finished with outcome o
Finish(h, o) ==
    /\ proc' = [proc EXCEPT ![h] = Idle]
    /\ last' = o

\* no reply is waiting to be delivered
Quiet == last = NoOutcome

CanStart(h) ==
    /\ Quiet
    /\ proc[h].pc = "idle"
    /\ \A g \in Handlers : g < h => proc[g].pc # "idle"
    /\ queries < MaxQueries

\* quote(text_title, number) up to its first suspension (line 167)
Quote(h) ==
    /\ CanStart(h)
    /\ \E title \in TitleInputs :
       \E got \in {GetPassagesSync(TEXTS, disk, title)} :
          LET p == [Idle EXCEPT !.cmd = "quote", !.title = title, !.given = TRUE]
          IN  IF got.await
              THEN /\ Suspend(h, p, got.key)
                   /\ UNCHANGED TEXTS
              ELSE /\ TEXTS' = got.texts
                   /\ \E number \in Numbers :
                         Finish(h, Via(After(QuoteOutcome(title, number,
                                                          got.passages),
                                             got.key, 0), got.via))
                   /\ UNCHANGED fetches
    /\ queries' = queries + 1
    /\ UNCHANGED <<disk, raises, chunkVars>>

\* random_passage(text_title) up to its first suspension (lines 182-183 and
\* 194-196); text_title = None or "" takes the branch that picks a title
Random(h) ==
    /\ CanStart(h)
    /\ \E given \in BOOLEAN :
       \E title \in (IF given THEN TitleInputs ELSE KnownTitles) :
       \E got \in {GetPassagesSync(TEXTS, disk, title)} :
          LET p == [Idle EXCEPT !.cmd = "random", !.title = title,
                                !.given = given]
          IN  IF got.await
              THEN /\ Suspend(h, p, got.key)
                   /\ UNCHANGED TEXTS
              ELSE /\ TEXTS' = got.texts
                   /\ \E o \in RandomOutcomes(title, given, got.passages) :
                         Finish(h, Via(After(o, got.key, 0), got.via))
                   /\ UNCHANGED fetches
    /\ queries' = queries + 1
    /\ UNCHANGED <<disk, raises, chunkVars>>

\* search(query) up to its first suspension (lines 206-208)
Search(h) ==
    /\ CanStart(h)
    /\ \E query \in QueryInputs :
       \E run \in {SearchRun(1, TEXTS, disk, query, <<>>, <<>>)} :
          LET p == [Idle EXCEPT !.cmd = "search", !.query = query,
                                !.idx = run.idx, !.results = run.results,
                                !.seen = run.seen]
          IN  /\ TEXTS' = run.texts
              /\ IF run.await
                 THEN /\ Suspend(h, p, SearchTitles[run.idx])
                 ELSE /\ Finish(h, SearchOutcome(query, run.results, run.seen))
                      /\ UNCHANGED fetches
    /\ queries' = queries + 1
    /\ UNCHANGED <<disk, raises, chunkVars>>

\* the GET of a suspended handler raises, or the adapter raises on its
\* answer: the exception leaves get_passages and the handler (no try)
FetchRaises(h) ==
    /\ Quiet
    /\ proc[h].pc = "fetch"
    /\ \E resp \in Responses(proc[h].key) :
       \E got \in {Fetched(proc[h].key, resp)} :
              /\ got.raised # ""
              /\ Finish(h, After(RaisedOutcome(proc[h], got.raised),
                                  proc[h].key, resp.status))
    /\ raises' = [raises EXCEPT ![proc[h].key] = @ + 1]
    /\ UNCHANGED <<TEXTS, disk, fetches, queries, chunkVars>>

\* the GET of a suspended quote answers: lines 76-82 or 91-119, then 133-134
\* or 137-138, then 168-177
QuoteResume(h) ==
    /\ Quiet
    /\ proc[h].pc = "fetch"
    /\ proc[h].cmd = "quote"
    /\ \E resp \in Responses(proc[h].key) :
       \E got \in {Fetched(proc[h].key, resp)} :
              /\ got.raised = ""
              /\ disk' = Saved(disk, proc[h].key, got.passages)
              /\ TEXTS' = Resolved(TEXTS, proc[h].key, got.passages)
              /\ \E number \in Numbers :
                    Finish(h, Via(After(QuoteOutcome(proc[h].title, number,
                                                     got.passages),
                                        proc[h].key, resp.status), "network"))
    /\ UNCHANGED <<fetches, raises, queries, chunkVars>>

\* the GET of a suspended random_passage answers
RandomResume(h) ==
    /\ Quiet
    /\ proc[h].pc = "fetch"
    /\ proc[h].cmd = "random"
    /\ \E resp \in Responses(proc[h].key) :
       \E got \in {Fetched(proc[h].key, resp)} :
              /\ got.raised = ""
              /\ disk' = Saved(disk, proc[h].key, got.passages)
              /\ TEXTS' = Resolved(TEXTS, proc[h].key, got.passages)
              /\ \E o \in RandomOutcomes(proc[h].title, proc[h].given, got.passages) :
                    Finish(h, Via(After(o, proc[h].key, resp.status), "network"))
    /\ UNCHANGED <<fetches, raises, queries, chunkVars>>

\* the GET of a suspended search answers: the title's passages are saved,
\* catalogued and scanned, and the loop goes on to the next suspension
SearchResume(h) ==
    /\ Quiet
    /\ proc[h].pc = "fetch"
    /\ proc[h].cmd = "search"
    /\ \E resp \in Responses(proc[h].key) :
       \E got \in {Fetched(proc[h].key, resp)} :
          /\ got.raised = ""
          /\ LET p == proc[h]
                 D == Saved(disk, p.key, got.passages)
                 T == Resolved(TEXTS, p.key, got.passages)
                 found == ScanFrom(p.key, got.passages, p.query, 1, p.results)
                 seen == Append(p.seen, [passages |-> got.passages,
                                         via |-> "network"])
             IN  \E run \in {IF SearchDone(found)
                              THEN [await |-> FALSE, idx |-> p.idx, texts |-> T,
                                    results |-> found, seen |-> seen]
                              ELSE SearchRun(p.idx + 1, T, D, p.query, found,
                                             seen)} :
              /\ disk' = D
              /\ TEXTS' = run.texts
              /\ IF run.await
                 THEN /\ Suspend(h, [p EXCEPT !.idx = run.idx,
                                              !.results = run.results,
                                              !.seen = run.seen],
                                 SearchTitles[run.idx])
                 ELSE /\ Finish(h, After(SearchOutcome(p.query, run.results,
                                                       run.seen),
                                         p.key, resp.status))
                      /\ UNCHANGED fetches
    /\ UNCHANGED <<raises, queries, chunkVars>>

\* lines 169, 172, 177, 185, 191, 201, 218, 220: the reply goes to the user
Deliver ==
    /\ ~Quiet
    /\ last' = NoOutcome
    /\ UNCHANGED <<TEXTS, disk, proc, fetches, raises, queries, chunkVars>>

\* the process ends and starts again: the catalog is empty again (line 43),
\* the handlers in flight are gone, the files of texts/ stay
Restart ==
    /\ Quiet
    /\ TEXTS # <<>> \/ \E h \in Handlers : proc[h].pc # "idle"
    /\ TEXTS' = <<>>
    /\ proc' = [h \in Handlers |-> Idle]
    /\ last' = NoOutcome
    /\ fetches' = [t \in KnownTitles |-> 0]
    /\ raises' = [t \in KnownTitles |-> 0]
    /\ UNCHANGED <<disk, queries, chunkVars>>

\* the chunker's variables while the handlers are modelled
ChunkIdle ==
    /\ text = <<>>
    /\ max_len = MAX_MESSAGE_LENGTH
    /\ start = 0
    /\ chunks = <<>>
    /\ cpc = "call"

\* the handlers' variables at process start
BotInit ==
    /\ TEXTS = <<>>
    /\ disk = <<>>
    /\ proc = [h \in Handlers |-> Idle]
    /\ last = NoOutcome
    /\ fetches = [t \in KnownTitles |-> 0]
    /\ raises = [t \in KnownTitles |-> 0]
    /\ queries = 0

Init == BotInit /\ ChunkIdle

Step(h) ==
    \/ Quote(h)
    \/ Random(h)
    \/ Search(h)
    \/ FetchRaises(h)
    \/ QuoteResume(h)
    \/ RandomResume(h)
    \/ SearchResume(h)

Next == (\E h \in Handlers : Step(h)) \/ Deliver \/ Restart

Spec == Init /\ [][Next]_vars

\* no handler is in flight
AllIdle == \A h \in Handlers : proc[h].pc = "idle"

\* the queries arrive one after the other: a query starts when the one before
\* it has finished
StartSeq(h) == AllIdle /\ (Quote(h) \/ Random(h) \/ Search(h))

ResumeSeq(h) ==
    FetchRaises(h) \/ QuoteResume(h) \/ RandomResume(h) \/ SearchResume(h)

NextSeq == (\E h \in Handlers : StartSeq(h) \/ ResumeSeq(h)) \/ Deliver \/ Restart

SpecSeq == Init /\ [][NextSeq]_vars

----------------------------------------------------------------------------
(* split_into_chunks(text, max_len), one loop iteration per step *)

ChunkAlphabet == {"a", " ", "\n"}

\* the window's end: start + max_len
WindowEnd == start + max_len

\* a cut that looks for the last space in the whole rest of the text
CutPoint_Unbounded ==
    LET space == RFind(text, " ", start, Len(text))
    IN  IF space = -1 THEN WindowEnd ELSE space

\* where the iteration cuts: the last space of the window, or the window's end
CutPoint ==
    LET space == RFind(text, " ", start, WindowEnd)
    IN  IF space = -1 THEN WindowEnd ELSE space

\* a cursor that steps over the character at the cut
NextStart_SkipCut == CutPoint + 1

\* where the next iteration starts: at the cut itself (start = space)
NextStart == CutPoint

\* lines 48-51: the short-text return, or the entry into the loop
ChunkCall ==
    /\ cpc = "call"
    /\ IF Len(text) <= max_len
       THEN /\ chunks' = <<text>>
            /\ cpc' = "done"
            /\ start' = start
       ELSE /\ chunks' = <<>>
            /\ start' = 0
            /\ cpc' = "loop"
    /\ UNCHANGED <<text, max_len, botVars>>

\* lines 52-63: one iteration of the while loop.  A run whose cursor advances
\* on every iteration appends at most Len(text) pieces, so the cap on the
\* number of pieces cuts only runs that have already stalled.
ChunkIter ==
    /\ cpc = "loop"
    /\ Len(chunks) <= Len(text) + 1
    /\ IF start < Len(text)
       THEN IF WindowEnd < Len(text)
            THEN /\ chunks' = Append(chunks, Strip(Slice(text, start, CutPoint)))
                 /\ start' = NextStart
                 /\ cpc' = "loop"
            ELSE /\ chunks' = Append(chunks, Strip(Slice(text, start, Len(text))))
                 /\ start' = start
                 /\ cpc' = "done"
       ELSE /\ cpc' = "done"
            /\ UNCHANGED <<chunks, start>>
    /\ UNCHANGED <<text, max_len, botVars>>

ChunkInit ==
    /\ text \in StringsUpTo(ChunkAlphabet, MaxTextLen)
    /\ max_len \in 1 .. MaxChunkLen
    /\ start = 0
    /\ chunks = <<>>
    /\ cpc = "call"
    /\ BotInit

ChunkNext == ChunkCall \/ ChunkIter

SpecChunk == ChunkInit /\ [][ChunkNext]_vars

----------------------------------------------------------------------------
(* Claims about the resolver and the handlers *)

\* the exceptions a fetch ends with
FetchExceptions == {"ClientError", "ContentTypeError", "KeyError"}

\* outcome o belongs to a handler whose last step consumed a failed fetch: the
\* GET or the adapter raised, or the response was not a success
FetchFailed(o) == o.exc \in FetchExceptions \/ o.status \notin {0, 200}

C2_EntryImmutable ==
    [][(Restart \/ FetchFailed(last')) \/
       \A t \in DOMAIN TEXTS :
           t \in DOMAIN TEXTS' /\ TEXTS'[t] = TEXTS[t]]_vars

\* C3: when the fetch made for a quote fails, the quote's outcome is NotFound
\* and the title has no entry in the catalog.
C3_FailedFetchIsNotFound ==
    (last.cmd = "quote" /\ FetchFailed(last)) =>
        (last.kind = "NotFound" /\ last.key \notin DOMAIN TEXTS)

\* C4: a quote that no failed fetch is involved in answers NotFound for an
\* unknown title only; for a known title with count passages it returns
\* passages[n-1] when 1 <= n <= count and OutOfRange otherwise.
C4_QuoteAddressing ==
    (last.cmd = "quote" /\ ~FetchFailed(last)) =>
        IF last.key \notin KnownTitles THEN last.kind = "NotFound"
        ELSE IF last.number >= 1 /\ last.number <= Len(last.passages)
        THEN last.kind = "Passage" /\ last.text = last.passages[last.number]
        ELSE last.kind = "OutOfRange"

\* C9: a random_passage that no failed fetch is involved in ends with NotFound
\* or with a passage of a known title whose number lies in [1, count].
C9_RandomOutcome ==
    (last.cmd = "random" /\ ~FetchFailed(last)) =>
        \/ last.kind = "NotFound"
        \/ /\ last.kind = "Passage"
           /\ last.key \in KnownTitles
           /\ last.number \in 1 .. Len(last.passages)
           /\ last.text = last.passages[last.number]

\* the matches of query in the k-th title's passages, in passage order
MatchesIn(k, passages, query) ==
    SelectSeq([i \in 1 .. Len(passages) |->
                  [title |-> GUTENBERG_TEXTS[k], number |-> i,
                   snippet |-> Snippet(passages[i])]],
              LAMBDA r : Matches(query, passages[r.number]))

\* the matches of query in the titles scanned, in catalog order
RECURSIVE AllMatches(_, _, _)
AllMatches(seen, query, k) ==
    IF k > Len(seen) THEN <<>>
    ELSE MatchesIn(k, seen[k].passages, query) \o AllMatches(seen, query, k + 1)

\* C10: search returns at most 5 results in all, and they are the first
\* matches (all of them up to 5) in catalog order of titles, then passage
\* order.
C10_SearchBound ==
    (last.cmd = "search" /\ last.kind # "Raised") =>
        LET all == AllMatches(last.seen, last.query, 1)
        IN  /\ Len(last.results) <= SEARCH_LIMIT
            /\ Len(all) > SEARCH_LIMIT =>
                   last.results = SubSeq(all, 1, SEARCH_LIMIT)
            /\ Len(all) <= SEARCH_LIMIT => last.results = all

\* a search whose query matches more than 5 passages of the titles it scanned
C10_Witness ==
    /\ last.cmd = "search"
    /\ last.kind = "Matches"
    /\ Len(AllMatches(last.seen, last.query, 1)) > SEARCH_LIMIT
    /\ Len(last.results) = SEARCH_LIMIT

\* the position of a flat-file title in GUTENBERG_TEXTS
TitleIndex(title) ==
    CHOOSE k \in DOMAIN GUTENBERG_TEXTS : GUTENBERG_TEXTS[k] = title

\* the passage a search result was made from
PassageOf(seen, r) == seen[TitleIndex(r.title)].passages[r.number]

\* C11: the snippet of a search match whose passage has at most 300
\* characters is the whole passage: no word is lost and no ellipsis is added.
C11_ShortPassageWhole ==
    (last.cmd = "search" /\ last.kind = "Matches") =>
        \A i \in 1 .. Len(last.results) :
            LET p == PassageOf(last.seen, last.results[i])
            IN  Len(p) <= SNIPPET_LEN => last.results[i].snippet = p

\* the passages of the disk record of flat-file title t
Record(t) == disk[FileName(t)].passages

\* a flat-file title has a disk record
Recorded(t) == FileName(t) \in DOMAIN disk

\* a resolution through the network leaves a disk record of the passages it
\* returned
FetchLeavesRecord ==
    /\ (last.via = "network" /\ last.key \in GutenbergTitles) =>
           (Recorded(last.key) /\ Record(last.key) = last.passages)
    /\ \A k \in 1 .. Len(last.seen) :
           last.seen[k].via = "network" =>
               /\ Recorded(GUTENBERG_TEXTS[k])
               /\ Record(GUTENBERG_TEXTS[k]) = last.seen[k].passages

\* while the disk record of t exists it is not rewritten, no GET is issued
\* for t, and a query that finds t out of the catalog is answered with the
\* record's passages
RecordServes(t) ==
    Recorded(t) =>
        /\ Recorded(t)' /\ Record(t)' = Record(t)
        /\ fetches'[t] <= fetches[t]
        /\ (last'.key = t /\ last'.via # "" /\ t \notin DOMAIN TEXTS) =>
               (last'.via = "disk" /\ last'.passages = Record(t))

\* C12: in a sequence of sequential queries, once a flat-file title has been
\* resolved through the network its disk record holds the passages that were
\* returned, and from then on (also after the catalog has been emptied)
\* resolving the title returns these passages and issues no network call.
C12_RoundTrip ==
    []FetchLeavesRecord /\ [][\A t \in GutenbergTitles : RecordServes(t)]_vars

\* a title fetched in an earlier run of the process has been resolved again
\* from its disk record, with no GET in this run
C12_Witness ==
    /\ last.via = "disk"
    /\ last.kind = "Passage"
    /\ fetches[last.key] = 0
    /\ TEXTS[last.key].passages = Record(last.key)

\* a resolution through the network or from disk stores in the catalog the
\* passages it returns
ResolutionStored ==
    /\ last.via \in {"network", "disk"} =>
           (last.key \in DOMAIN TEXTS /\ TEXTS[last.key].passages = last.passages)
    /\ \A k \in 1 .. Len(last.seen) :
           /\ GUTENBERG_TEXTS[k] \in DOMAIN TEXTS
           /\ TEXTS[GUTENBERG_TEXTS[k]].passages = last.seen[k].passages

\* search's requests for the titles found in the catalog were answered from
\* the catalog
SeenFromMemory(seen) ==
    \A k \in 1 .. Len(seen) :
        GUTENBERG_TEXTS[k] \in DOMAIN TEXTS =>
            /\ seen[k].via = "memory"
            /\ seen[k].passages = TEXTS[GUTENBERG_TEXTS[k]].passages

\* a step that starts a query: the titles it names that are in the catalog are
\* answered from the catalog, with the catalog's passages and with the disk
\* left alone
ServedFromMemory ==
    queries' = queries + 1 =>
        /\ (last'.via # "" /\ Strip(last'.title) \in DOMAIN TEXTS) =>
               /\ last'.via = "memory"
               /\ last'.passages = TEXTS[Strip(last'.title)].passages
               /\ disk' = disk
        /\ last'.cmd = "search" => SeenFromMemory(last'.seen)
        /\ \A h \in Handlers :
               (proc[h].pc = "idle" /\ proc'[h].cmd = "search") =>
                   SeenFromMemory(proc'[h].seen)

\* C13: in a sequence of sequential queries, once a title is in the catalog
\* its entry holds the passages its resolution returned and stays as it is
\* for the rest of the process, no GET is issued for the title, and every
\* later query naming it (also with surrounding whitespace) is answered
\* from the catalog with the entry's passages, without a disk read.
C13_ServedFromMemory ==
    /\ []ResolutionStored
    /\ [][/\ Restart \/ \A t \in DOMAIN TEXTS :
                         /\ t \in DOMAIN TEXTS' /\ TEXTS'[t] = TEXTS[t]
                         /\ fetches'[t] <= fetches[t]
          /\ ServedFromMemory]_vars

\* a query that names a catalogued title with surrounding whitespace has
\* been answered from the catalog
C13_Witness ==
    /\ last.via = "memory"
    /\ last.kind = "Passage"
    /\ last.title # last.key
    /\ last.passages = TEXTS[last.key].passages

\* the step is one of a search handler: it ends a search, or it leaves a
\* search suspended on a GET
SearchStep ==
    \/ last'.cmd = "search"
    \/ \E h \in Handlers : proc'[h].cmd = "search" /\ proc'[h] # proc[h]

\* the step issues no GET for an API title and leaves the API titles'
\* entries as they are, those absent still absent
ApiUntouched ==
    \A t \in ApiTitles :
        /\ fetches'[t] = fetches[t]
        /\ t \in DOMAIN TEXTS' <=> t \in DOMAIN TEXTS
        /\ t \in DOMAIN TEXTS => TEXTS'[t] = TEXTS[t]

\* C14: a search waits on the GET of flat-file titles only, and no step of
\* a search fetches an API title, adds one to the catalog, or changes or
\* removes the entry of one.
C14_SearchLocalOnly ==
    /\ [](\A h \in Handlers :
             (proc[h].cmd = "search" /\ proc[h].pc = "fetch") =>
                 proc[h].key \in GutenbergTitles)
    /\ [][SearchStep => ApiUntouched]_vars

\* a search has scanned all its titles while the catalog held an API title
C14_Witness ==
    /\ last.cmd = "search"
    /\ last.kind # "Raised"
    /\ Len(last.seen) = Len(GUTENBERG_TEXTS)
    /\ \E t \in ApiTitles : t \in DOMAIN TEXTS /\ TEXTS[t].passages # <<>>

\* C15: a step of a handler that consumes a failed fetch (the GET or the
\* adapter raised, or the response was not a success) writes no disk record.
C15_FailedFetchWritesNothing ==
    [][FetchFailed(last') => disk' = disk]_vars

\* C16: once a disk record has been written, no later step of any handler in
\* any interleaving removes it or changes its content (stated for the steps
\* that consume no failed fetch, so that a violation rests on successful
\* fetches alone).
C16_RecordImmutable ==
    [][FetchFailed(last') \/
       \A f \in DOMAIN disk : f \in DOMAIN disk' /\ disk'[f] = disk[f]]_vars

\* C17: in every reachable state, under every interleaving of the handlers,
\* each title the catalog holds with type "local" has a disk record whose
\* passages are the catalog's passages for the title.
C17_CatalogMatchesDisk ==
    \A t \in DOMAIN TEXTS :
        TEXTS[t].type = "local" => (Recorded(t) /\ Record(t) = TEXTS[t].passages)

\* two handlers have fetched the same flat-file title, both fetches have
\* returned and both have written the record and the entry
C17_Witness ==
    /\ AllIdle
    /\ \E t \in GutenbergTitles :
          /\ fetches[t] = 2 /\ raises[t] = 0
          /\ t \in DOMAIN TEXTS
          /\ TEXTS[t].passages # <<>>
          /\ Record(t) = TEXTS[t].passages

\* every key of the catalog is a trimmed known title, tagged by its kind
CatalogTyped ==
    \A t \in DOMAIN TEXTS :
        /\ t \in KnownTitles
        /\ Strip(t) = t
        /\ TEXTS[t].type = "local" <=> t \in GutenbergTitles
        /\ TEXTS[t].type = "api" <=> t \in ApiTitles

\* no handler waits on a GET for an unknown title
NoUnknownFetch ==
    \A h \in Handlers : proc[h].pc = "fetch" => proc[h].key \in KnownTitles

\* a step that answers a query naming an unknown title: the passages are
\* empty, and the catalog, the disk and the GETs issued are as before
UnknownTitleStep ==
    (last'.via # "" /\ Strip(last'.title) \notin KnownTitles) =>
        /\ last'.passages = <<>>
        /\ TEXTS' = TEXTS
        /\ disk' = disk
        /\ fetches' = fetches

\* C18: every key of TEXTS is a whitespace-trimmed known title, tagged
\* "local" exactly when it is a GUTENBERG_TEXTS title and "api" exactly when
\* it is an API_TEXTS title; a query naming an unknown title gets the empty
\* sequence and leaves the catalog and the disk unchanged, with no fetch.
C18_CatalogMembership ==
    [](CatalogTyped /\ NoUnknownFetch) /\ [][UnknownTitleStep]_vars

\* a query naming an unknown title has been answered while the catalog held
\* an entry
C18_Witness ==
    /\ last.via = "none"
    /\ last.key \notin KnownTitles
    /\ last.kind = "NotFound"
    /\ TEXTS # <<>>

----------------------------------------------------------------------------
(* Claims about split_into_chunks *)

\* C5: on every iteration of the loop of split_into_chunks the cursor start
\* strictly advances, so the loop terminates.
C5_CursorAdvances ==
    [][(cpc = "loop" /\ cpc' = "loop") => start' > start]_vars

\* C6: every piece split_into_chunks has produced has length <= max_len.
C6_PieceBound ==
    \A i \in 1 .. Len(chunks) : Len(chunks[i]) <= max_len

\* a returned result of more than one piece, one of them of full length
C6_Witness ==
    /\ cpc = "done"
    /\ Len(chunks) >= 2
    /\ \E i \in 1 .. Len(chunks) : Len(chunks[i]) = max_len

\* C7: for a non-empty text, split_into_chunks returns no empty piece.
C7_NoEmptyPiece ==
    (cpc = "done" /\ text # <<>>) => \A i \in 1 .. Len(chunks) : chunks[i] # <<>>

\* C8: the returned pieces, concatenated in order and with whitespace
\* deleted, are the input with its whitespace deleted.
\* While the loop runs the pieces so far account for the text before the cursor.
C8_NoCharDropped ==
    /\ cpc = "done" => NoSpace(Concat(chunks)) = NoSpace(text)
    /\ cpc = "loop" => NoSpace(Concat(chunks)) = NoSpace(Slice(text, 0, start))

\* a returned result of several pieces made by a cut at a space and a hard cut
C8_Witness ==
    /\ cpc = "done"
    /\ Len(chunks) >= 3
    /\ \E i \in 1 .. Len(text) : text[i] = " "
    /\ \E i \in 1 .. Len(chunks) : Len(chunks[i]) = max_len /\ max_len >= 2

=============================================================================
